---- MODULE Spec2Model ----
(***************************************************************************)
(* The simulation core of game.py: Bird, Pipe and FlappyBirdGame           *)
(* (reset, get_state, step).                                               *)
(*                                                                         *)
(* Units.  The bird's y and velocity are Python floats that are always     *)
(* multiples of 0.5 (gravity is 0.5, every other quantity is an integer),  *)
(* and with the speed_increase_rate values of Configs the pipe speed and   *)
(* the pipe x are multiples of 0.5 too.  Every length, position, velocity  *)
(* and speed of the state is therefore stored in HALF units (the source    *)
(* value times two), which is exact.  U(n) converts a source value.        *)
(* pygame.Rect stores C ints: Trunc models the conversion it applies to a  *)
(* float coordinate, and rectangles are in whole units.                    *)
(***************************************************************************)
EXTENDS Integers, Sequences, FiniteSets

\* ---------------------------------------------------------------- bounds
\* step() is explored while frames_elapsed < MaxFrames and fewer than
\* MaxPipes pipes were created since the last reset().
MaxFrames == 280
MaxPipes == 5
\* JUMP is offered only in the first JumpFrames steps of an episode.
JumpFrames == 6
\* Number of values random.randint is sampled at, spread over its range.
TopChoices == 2
\* Events handled in one iteration of the human-play loop.
MaxEvents == 2

\* ------------------------------------------------------------- constants
WIDTH == 400
HEIGHT == 600
FPS == 60

U(n) == 2 * n

\* Bird.__init__
BirdX == 80
gravity == 1            \* 0.5, in half units
jump_strength == -20    \* -10, in half units
size == 30

\* Pipe.__init__
PipeWidth == 70
PipeMargin == 100
PipeSpeed == 3

\* FlappyBirdGame
base_speed == 3
ResetLead == 200
TerminalReward == -1000
AliveReward == 1

NO_OP == 0
JUMP == 1

\* FlappyBirdGame.__init__'s defaults.
DefaultConfig ==
  [pipe_distance |-> 300, pipe_gap |-> 200, speed_increase_rate |-> 0]

\* The constructor arguments explored: the defaults, and time-ramped speeds
\* with other distances and gaps.  The rates are multiples of 30, for which
\* base_speed + frames/FPS*rate is a multiple of 0.5 that double precision
\* computes exactly for every frame count below 123; with a positive rate
\* the pipes come so fast that MaxPipes ends the exploration long before.
\* With pipe_distance 90 and rate 60 two pipes are within reach of the bird
\* in one step.
\* The last one has a pipe_gap that does not fit the screen.
Configs ==
  { DefaultConfig,
    [pipe_distance |-> 300, pipe_gap |-> 150, speed_increase_rate |-> 30],
    [pipe_distance |-> 280, pipe_gap |-> 200, speed_increase_rate |-> 30],
    [pipe_distance |-> 90, pipe_gap |-> 300, speed_increase_rate |-> 60],
    [pipe_distance |-> 300, pipe_gap |-> 450, speed_increase_rate |-> 0] }

VARIABLES
  config,          \* lines 92-96: pipe_distance, pipe_gap, speed_increase_rate
  bird,            \* line 102: [x, y, velocity]          (half units)
  pipes,           \* line 103: the pipes, in spawn order
  score,           \* line 105
  game_over,       \* line 106
  current_speed,   \* line 107: half units per step
  frames_elapsed,  \* line 108
  ret,             \* what the last call returned (lines 109, 167, 186, 191),
                   \* op = "raise" when the constructor raised instead
  jumps,           \* history: JUMP actions since the last reset()
  spawned,         \* history: pipes created since the last reset()
  scored,          \* history: ids of the pipes score was incremented for
  called_over,     \* history: game_over as the last call found it
  done_seen,       \* history: a step() returned done = true since reset()
  pc,              \* play_human: "loop", "events", "after" or "exit"
  running,         \* line 226
  act,             \* line 228: the local variable action
  event,           \* line 230: the event last taken from the list
  polled           \* events taken from the list in this iteration

\* The FlappyBirdGame object (with the history variables).
engine == <<config, bird, pipes, score, game_over, current_speed,
            frames_elapsed, ret, jumps, spawned, scored, called_over,
            done_seen>>

\* The locals of play_human.
human == <<pc, running, act, event, polled>>

vars == <<engine, human>>

\* ------------------------------------------------------------------ Bird
NewBird == [x |-> U(BirdX), y |-> U(HEIGHT \div 2), velocity |-> 0]

\* Mutant: the impulse is added to the velocity.
BirdJump_Adds(b) == [b EXCEPT !.velocity = b.velocity + jump_strength]

BirdJump(b) == [b EXCEPT !.velocity = jump_strength]

\* Mutant: the position is advanced before the velocity (explicit Euler).
BirdUpdate_PositionFirst(b) ==
  [b EXCEPT !.velocity = b.velocity + gravity, !.y = b.y + b.velocity]

BirdUpdate(b) ==
  LET v == b.velocity + gravity
  IN  [b EXCEPT !.velocity = v, !.y = b.y + v]

\* int(float) as pygame.Rect applies it: truncation toward zero.
Trunc(h) == IF h >= 0 THEN h \div 2 ELSE -((-h) \div 2)

Rect(left, top, w, h) == [left |-> left, top |-> top, w |-> w, h |-> h]

colliderect(a, b) ==
  /\ a.w # 0 /\ a.h # 0 /\ b.w # 0 /\ b.h # 0
  /\ a.left < b.left + b.w
  /\ b.left < a.left + a.w
  /\ a.top < b.top + b.h
  /\ b.top < a.top + a.h

get_rect(b) ==
  Rect(Trunc(b.x - U(size \div 2)), Trunc(b.y - U(size \div 2)), size, size)

\* ------------------------------------------------------------------ Pipe
\* The values random.randint(100, HEIGHT - gap - 100) is sampled at.
Tops(gap) ==
  LET lo == PipeMargin
      hi == HEIGHT - gap - PipeMargin
  IN  IF TopChoices <= 1 THEN {lo}
      ELSE {lo + (i * (hi - lo)) \div (TopChoices - 1) : i \in 0..(TopChoices - 1)}

\* random.randint(lo, hi) raises ValueError on an empty range.
\* Mutant: an empty range is not noticed.
RandintRaises_Never(lo, hi) == FALSE

RandintRaises(lo, hi) == lo > hi

\* Pipe.__init__ raises, and the pipe is not created.
PipeInitRaises(gap) == RandintRaises(PipeMargin, HEIGHT - gap - PipeMargin)

\* Mutant: the gap argument is dropped, the pipe has the default gap.
NewPipe_DefaultGap(x, gap, top, id) ==
  [x |-> U(x), width |-> PipeWidth, gap |-> 200, top_height |-> top,
   speed |-> U(PipeSpeed), passed |-> FALSE, id |-> id]

NewPipe(x, gap, top, id) ==
  [x |-> U(x), width |-> PipeWidth, gap |-> gap, top_height |-> top,
   speed |-> U(PipeSpeed), passed |-> FALSE, id |-> id]

PipeUpdate(p) == [p EXCEPT !.x = p.x - p.speed]

\* Mutant: the bottom rectangle starts at top_height, the gap is forgotten.
collides_with_NoGap(p, b) ==
  LET bird_rect == get_rect(b)
      top_pipe == Rect(Trunc(p.x), 0, p.width, p.top_height)
      bottom_pipe == Rect(Trunc(p.x), p.top_height, p.width,
                          HEIGHT - p.top_height)
  IN  colliderect(bird_rect, top_pipe) \/ colliderect(bird_rect, bottom_pipe)

collides_with(p, b) ==
  LET bird_rect == get_rect(b)
      top_pipe == Rect(Trunc(p.x), 0, p.width, p.top_height)
      bottom_pipe == Rect(Trunc(p.x), p.top_height + p.gap, p.width,
                          HEIGHT - p.top_height - p.gap)
  IN  colliderect(bird_rect, top_pipe) \/ colliderect(bird_rect, bottom_pipe)

\* Mutant: a pipe is off screen as soon as its left edge is.
off_screen_LeftEdge(p) == p.x < 0

off_screen(p) == p.x + U(p.width) < 0

\* -------------------------------------------------------- FlappyBirdGame
\* get_state(): the first pipe in list order that the scan accepts.
\* Mutant: a right edge exactly at the bird's x still counts as ahead.
IsAhead_Inclusive(p, b) == p.x + U(p.width) >= b.x

IsAhead(p, b) == p.x + U(p.width) > b.x

NextPipeIndex(ps, b) ==
  LET ahead == {i \in 1..Len(ps) : IsAhead(ps[i], b)}
  IN  IF ahead = {} THEN 0 ELSE CHOOSE i \in ahead : \A j \in ahead : i <= j

\* <<bird y, bird velocity, distance>> in half units, the two heights in
\* whole units.
get_state(b, ps) ==
  LET n == NextPipeIndex(ps, b)
  IN  IF n # 0
      THEN <<b.y, b.velocity, ps[n].x - b.x, ps[n].top_height,
             ps[n].top_height + ps[n].gap>>
      ELSE <<b.y, b.velocity, U(WIDTH), HEIGHT \div 2, HEIGHT>>

\* current_speed after the frame counter reached f (half units; exact for
\* the rates of Configs).
SpeedAt(f, rate) == U(base_speed) + (U(f * rate)) \div FPS

\* Lines 161-162: the engine assigns the speed, the pipe moves.
Moved(p, s) == PipeUpdate([p EXCEPT !.speed = s])

\* Index of the pipe whose collision check ends the loop, 0 when none does.
FirstCollision(ps, b, s) ==
  LET hit == {i \in 1..Len(ps) : collides_with(Moved(ps[i], s), b)}
  IN  IF hit = {} THEN 0 ELSE CHOOSE i \in hit : \A j \in hit : i <= j

\* Line 170, on a pipe that already moved.
PassesNow(p, b) == ~p.passed /\ p.x + U(p.width) < b.x

\* Mutant: the passed flag is not set.
MarkPassed_Forgets(p) == p

MarkPassed(p) == [p EXCEPT !.passed = TRUE]

\* Pipe i after the loop of lines 160-172 when that loop ends at index k
\* (k = 0: it runs through).
\* Mutant: every pipe is moved before the collision checks.
AfterLoop_MovesAll(p, i, k, b, s) ==
  IF k # 0 /\ i >= k THEN Moved(p, s)
  ELSE IF PassesNow(Moved(p, s), b) THEN MarkPassed(Moved(p, s))
  ELSE Moved(p, s)

AfterLoop(p, i, k, b, s) ==
  IF k # 0 /\ i > k THEN p
  ELSE IF i = k THEN Moved(p, s)
  ELSE IF PassesNow(Moved(p, s), b) THEN MarkPassed(Moved(p, s))
  ELSE Moved(p, s)

\* Indices of the pipes line 172 increments score for.
ScoringIndices(ps, k, b, s) ==
  {i \in 1..Len(ps) : (k = 0 \/ i < k) /\ PassesNow(Moved(ps[i], s), b)}

RECURSIVE IdsOf(_, _, _)
IdsOf(ps, I, i) ==
  IF i > Len(ps) THEN <<>>
  ELSE (IF i \in I THEN <<ps[i].id>> ELSE <<>>) \o IdsOf(ps, I, i + 1)

KeepOnScreen(ps) == SelectSeq(ps, LAMBDA p : ~off_screen(p))

\* Mutant: the spawn test forgets pipe_distance.
NeedsPipe_IgnoresDistance(ps, dist) == Len(ps) = 0 \/ ps[Len(ps)].x < U(WIDTH)

\* Mutant: a pipe is created only when the list is empty.
NeedsPipe_OnlyWhenEmpty(ps, dist) == Len(ps) = 0

NeedsPipe(ps, dist) == Len(ps) = 0 \/ ps[Len(ps)].x < U(WIDTH - dist)

\* Mutant: the two screen edges themselves are out of bounds.
OutOfBounds_Inclusive(b) == b.y >= U(HEIGHT) \/ b.y <= 0

\* Mutant: only the top edge is checked.
OutOfBounds_TopOnly(b) == b.y < 0

OutOfBounds(b) == b.y > U(HEIGHT) \/ b.y < 0

\* Mutant: only the collision path sets game_over.
SetsGameOver_OnlyOnCollision(k, b) == k # 0

\* Lines 166 and 185: the step sets game_over (k: FirstCollision).
SetsGameOver(k, b) == k # 0 \/ OutOfBounds(b)

Returned(op, b, ps, reward, done) ==
  [op |-> op, state |-> get_state(b, ps), reward |-> reward, done |-> done]

\* Mutant: reset() does not zero the score.
ResetTo_KeepsScore(c, top) ==
  LET b == NewBird
      ps == <<[NewPipe(WIDTH + ResetLead, c.pipe_gap, top, 1)
                 EXCEPT !.speed = U(base_speed)]>>
  IN  /\ bird' = b
      /\ pipes' = ps
      /\ score' = score
      /\ game_over' = FALSE
      /\ current_speed' = U(base_speed)
      /\ frames_elapsed' = 0
      /\ ret' = Returned("reset", b, ps, 0, FALSE)
      /\ jumps' = 0
      /\ spawned' = 1
      /\ scored' = <<>>
      /\ called_over' = game_over
      /\ done_seen' = FALSE

\* reset(), also the tail of __init__.
ResetTo(c, top) ==
  LET b == NewBird
      ps == <<[NewPipe(WIDTH + ResetLead, c.pipe_gap, top, 1)
                 EXCEPT !.speed = U(base_speed)]>>
  IN  /\ bird' = b
      /\ pipes' = ps
      /\ score' = 0
      /\ game_over' = FALSE
      /\ current_speed' = U(base_speed)
      /\ frames_elapsed' = 0
      /\ ret' = Returned("reset", b, ps, 0, FALSE)
      /\ jumps' = 0
      /\ spawned' = 1
      /\ scored' = <<>>
      /\ called_over' = game_over
      /\ done_seen' = FALSE

\* play_human has not been entered.
HumanInit ==
  /\ pc = "loop"
  /\ running = TRUE
  /\ act = NO_OP
  /\ event = "none"
  /\ polled = 0

\* __init__ when the reset() of line 98 returns.
InitReady(c, top) ==
  LET b == NewBird
      ps == <<[NewPipe(WIDTH + ResetLead, c.pipe_gap, top, 1)
                 EXCEPT !.speed = U(base_speed)]>>
  IN  /\ config = c
      /\ bird = b
      /\ pipes = ps
      /\ score = 0
      /\ game_over = FALSE
      /\ current_speed = U(base_speed)
      /\ frames_elapsed = 0
      /\ ret = Returned("reset", b, ps, 0, FALSE)
      /\ jumps = 0
      /\ spawned = 1
      /\ scored = <<>>
      /\ called_over = FALSE
      /\ done_seen = FALSE
      /\ HumanInit

\* __init__ when the Pipe(...) of line 103 raises: the exception leaves
\* __init__, the caller gets no FlappyBirdGame.  Line 102 created the bird;
\* pipes, score, game_over, current_speed and frames_elapsed were never
\* assigned and are shown empty.
InitRaised(c) ==
  /\ config = c
  /\ bird = NewBird
  /\ pipes = <<>>
  /\ score = 0
  /\ game_over = FALSE
  /\ current_speed = 0
  /\ frames_elapsed = 0
  /\ ret = [op |-> "raise", state |-> <<>>, reward |-> 0, done |-> FALSE]
  /\ jumps = 0
  /\ spawned = 0
  /\ scored = <<>>
  /\ called_over = FALSE
  /\ done_seen = FALSE
  /\ HumanInit

Init ==
  \E c \in Configs :
    IF PipeInitRaises(c.pipe_gap)
    THEN InitRaised(c)
    ELSE \E top \in Tops(c.pipe_gap) : InitReady(c, top)

\* There is an engine to call.
Constructed == ret.op # "raise"

Reset ==
  /\ Constructed
  /\ \E top \in Tops(config.pipe_gap) : ResetTo(config, top)
  /\ UNCHANGED <<config, human>>

\* The actions a caller may pass in the current state.
Actions == IF frames_elapsed < JumpFrames THEN {NO_OP, JUMP} ELSE {NO_OP}

\* step(action), lines 145-191.
StepWith(action) ==
  LET b == BirdUpdate(IF action = JUMP THEN BirdJump(bird) ELSE bird)
      f == frames_elapsed + 1
      s == SpeedAt(f, config.speed_increase_rate)
      k == FirstCollision(pipes, b, s)
      looped == [i \in 1..Len(pipes) |-> AfterLoop(pipes[i], i, k, b, s)]
      gained == ScoringIndices(pipes, k, b, s)
      kept == KeepOnScreen(looped)
  IN  /\ bird' = b
      /\ frames_elapsed' = f
      /\ current_speed' = s
      /\ score' = score + Cardinality(gained)
      /\ scored' = scored \o IdsOf(pipes, gained, 1)
      /\ jumps' = jumps + (IF action = JUMP THEN 1 ELSE 0)
      /\ called_over' = game_over
      /\ game_over' = (IF SetsGameOver(k, b) THEN TRUE ELSE game_over)
      /\ UNCHANGED config
      /\ IF k # 0
         THEN /\ pipes' = looped
              /\ spawned' = spawned
              /\ ret' = Returned("step", b, looped, TerminalReward, TRUE)
         ELSE /\ IF NeedsPipe(kept, config.pipe_distance)
                 THEN /\ \E top \in Tops(config.pipe_gap) :
                           pipes' = Append(kept,
                             [NewPipe(WIDTH, config.pipe_gap, top, spawned + 1)
                                EXCEPT !.speed = s])
                      /\ spawned' = spawned + 1
                 ELSE /\ pipes' = kept
                      /\ spawned' = spawned
              /\ IF OutOfBounds(b)
                 THEN ret' = Returned("step", b, pipes', TerminalReward, TRUE)
                 ELSE ret' = Returned("step", b, pipes', AliveReward, FALSE)
      /\ done_seen' = (done_seen \/ ret'.done)

Step ==
  /\ Constructed
  /\ frames_elapsed < MaxFrames
  /\ spawned < MaxPipes
  /\ \E action \in Actions : StepWith(action)
  /\ UNCHANGED human

Next == Step \/ Reset

Spec == Init /\ [][Next]_vars

\* ------------------------------------------------------------ play_human
\* The events pygame.event.get() may deliver: the window's QUIT, a KEYDOWN
\* of the space bar, and anything else (another key, another event type).
Events == {"QUIT", "SPACE", "OTHER"}

\* The events offered in the current state: the space bar, like JUMP, only
\* early in an episode, or when the game is over.
Offered ==
  IF game_over \/ frames_elapsed < JumpFrames THEN Events
  ELSE Events \ {"SPACE"}

\* Mutant: the loop steps whenever it is still running.
ShouldStep_IgnoresOver(over, run) == run

\* Line 241.
ShouldStep(over, run) == ~over /\ run

\* Lines 227-228: the loop test and the start of an iteration; lines 246-247
\* when the loop has ended.
HumanLoopTest ==
  /\ Constructed
  /\ pc = "loop"
  /\ IF running
     THEN pc' = "events" /\ act' = NO_OP /\ polled' = 0
     ELSE pc' = "exit" /\ UNCHANGED <<act, polled>>
  /\ UNCHANGED <<engine, running, event>>

\* Lines 230-239: one event of the list pygame.event.get() returned.
HumanEvent ==
  /\ pc = "events"
  /\ polled < MaxEvents
  /\ polled' = polled + 1
  /\ \E e \in Offered :
       /\ event' = e
       /\ IF e = "QUIT"
          THEN /\ running' = FALSE
               /\ pc' = "after"
               /\ UNCHANGED <<engine, act>>
          ELSE IF e = "SPACE"
          THEN IF game_over
               THEN /\ \E top \in Tops(config.pipe_gap) : ResetTo(config, top)
                    /\ UNCHANGED <<config, running, pc, act>>
               ELSE /\ act' = JUMP
                    /\ UNCHANGED <<engine, running, pc>>
          ELSE UNCHANGED <<engine, running, pc, act>>

\* The list of events is exhausted.
HumanEventsDone ==
  /\ pc = "events"
  /\ pc' = "after"
  /\ UNCHANGED <<engine, running, event, act, polled>>

\* Lines 241-244: the guarded step(), then render(), which reads only.
HumanStep ==
  /\ pc = "after"
  /\ pc' = "loop"
  /\ IF ShouldStep(game_over, running)
     THEN /\ frames_elapsed < MaxFrames
          /\ spawned < MaxPipes
          /\ StepWith(act)
     ELSE UNCHANGED engine
  /\ UNCHANGED <<running, event, act, polled>>

HumanNext == HumanLoopTest \/ HumanEvent \/ HumanEventsDone \/ HumanStep

\* play_human() as the module's main block runs it (lines 251-262): on a
\* new engine with the default arguments.
MainInit == Init /\ config = DefaultConfig

SpecHuman == MainInit /\ [][HumanNext]_vars

\* ------------------------------------------------- geometry of the claims
\* The square of side size centred on the bird, and a pipe's two rectangles,
\* as exact intervals in half units; touching edges do not overlap.
BoxLeft(b) == b.x - size
BoxRight(b) == b.x + size
BoxTop(b) == b.y - size
BoxBottom(b) == b.y + size

OverlapsHorizontally(p, b) ==
  BoxLeft(b) < p.x + U(p.width) /\ p.x < BoxRight(b)

BoxMeetsTopRect(p, b) ==
  OverlapsHorizontally(p, b) /\ BoxTop(b) < U(p.top_height) /\ 0 < BoxBottom(b)

BoxMeetsBottomRect(p, b) ==
  /\ OverlapsHorizontally(p, b)
  /\ BoxTop(b) < U(HEIGHT)
  /\ U(p.top_height + p.gap) < BoxBottom(b)

BoxInsideGap(p, b) ==
  U(p.top_height) <= BoxTop(b) /\ BoxBottom(b) <= U(p.top_height + p.gap)

StepTaken == frames_elapsed' = frames_elapsed + 1

TerminalReturn == ret.done /\ ret.reward = TerminalReward

\* ------------------------------------------------------------------- C1
\* C1 (as claimed): once game_over is set, a step() changes neither the
\* bird, the pipes nor the score and returns done = true.
C1_OverIsAbsorbing ==
  [][(StepTaken /\ game_over) =>
       /\ ret'.done
       /\ bird' = bird
       /\ pipes' = pipes
       /\ score' = score]_vars

\* ------------------------------------------------------------------- C2
\* C2 (as claimed), for the steps of a running game: whenever, after a
\* step(), the exact bounding box of the bird meets the top or the bottom
\* rectangle of a pipe of the list, that step returned done = true with
\* reward -1000.
C2_BoxHitIsTerminal ==
  (ret.op = "step" /\ ~called_over /\ \E i \in 1..Len(pipes) :
       BoxMeetsTopRect(pipes[i], bird) \/ BoxMeetsBottomRect(pipes[i], bird))
    => TerminalReturn

\* ------------------------------------------------------------------- C3
\* C3: no false collision.  If after a step() the bird's exact box lies
\* inside the gap of every pipe it overlaps horizontally and 0 <= y <=
\* HEIGHT, the step returned done = false with reward +1.
C3_NoFalseCollision ==
  (/\ ret.op = "step"
   /\ \A i \in 1..Len(pipes) :
        OverlapsHorizontally(pipes[i], bird) => BoxInsideGap(pipes[i], bird)
   /\ 0 <= bird.y /\ bird.y <= U(HEIGHT))
    => (~ret.done /\ ret.reward = AliveReward)

\* A step taken while the game was running ended with the bird inside the
\* gap of a pipe it overlaps horizontally.
C3_Witness ==
  /\ ret.op = "step" /\ ~called_over /\ ~ret.done
  /\ \E i \in 1..Len(pipes) :
       OverlapsHorizontally(pipes[i], bird) /\ BoxInsideGap(pipes[i], bird)

Count(seq, v) == Cardinality({j \in 1..Len(seq) : seq[j] = v})

TrailingEdgeLeft(p, b) == p.x + U(p.width) < b.x

PipeWithId(ps, id) == {i \in 1..Len(ps) : ps[i].id = id}

\* The trailing edge of pipe p of the list is left of the bird at the end
\* of the step (a pipe no longer in the list went off screen, further left).
LeftAtEnd(p) ==
  \A i \in PipeWithId(pipes', p.id) : TrailingEdgeLeft(pipes'[i], bird')

\* C5 (as claimed), for the steps of a running game: score goes up by one
\* for a pipe in the first step at whose end its trailing edge is left of
\* the bird's x, and in no later step.
C5_ScoresWhenEdgeCrosses ==
  [][(StepTaken /\ ~game_over) =>
       \A i \in 1..Len(pipes) :
         LET p == pipes[i]
             first == ~TrailingEdgeLeft(p, bird) /\ LeftAtEnd(p)
         IN  Count(scored', p.id) =
               Count(scored, p.id) + (IF first THEN 1 ELSE 0)]_vars

\* C5 (amended): score goes up by exactly one for a pipe in the first
\* step() that reaches the pipe's passed check (the loop did not return on
\* a collision with it or with an earlier pipe) with its trailing edge left
\* of the bird's x, and in no other step; score counts exactly these.
C5_ScoresOncePerPipe ==
  [][StepTaken =>
       /\ \A i \in 1..Len(pipes) :
            LET p == pipes[i]
                k == FirstCollision(pipes, bird', current_speed')
                reached == k = 0 \/ i < k
                left == (p.x - current_speed') + U(p.width) < bird'.x
                first == reached /\ left /\ Count(scored, p.id) = 0
            IN  Count(scored', p.id) =
                  Count(scored, p.id) + (IF first THEN 1 ELSE 0)
       /\ score' - score = Len(scored') - Len(scored)
       /\ score' = Len(scored')]_vars

\* In a running game a pipe was scored once and a later step, with the
\* pipe's trailing edge still left of the bird, did not score it again.
C5_Witness ==
  /\ ret.op = "step" /\ ~game_over /\ score = 1
  /\ \E i \in 1..Len(pipes) :
       /\ pipes[i].passed
       /\ Count(scored, pipes[i].id) = 1
       /\ pipes[i].x + pipes[i].speed + U(pipes[i].width) < bird.x

\* ------------------------------------------------------------------- C6
\* C6: whatever was called before, reset() leaves the game running with
\* score 0, frames_elapsed 0, current_speed = base_speed, exactly one pipe
\* (x = WIDTH + 200, not passed, speed base_speed) and the bird at x = 80,
\* y = HEIGHT/2 with velocity 0.
C6_ResetState ==
  ret.op = "reset" =>
    /\ ~game_over
    /\ score = 0
    /\ frames_elapsed = 0
    /\ current_speed = U(base_speed)
    /\ Len(pipes) = 1
    /\ pipes[1].x = U(WIDTH + 200)
    /\ ~pipes[1].passed
    /\ pipes[1].speed = U(base_speed)
    /\ bird.x = U(80) /\ bird.y = U(HEIGHT \div 2) /\ bird.velocity = 0

\* reset() was called on a game that was over.
C6_Witness == ret.op = "reset" /\ called_over /\ ~game_over

\* ------------------------------------------------------------------- C7
FirstIndex(I) == IF I = {} THEN 0 ELSE CHOOSE i \in I : \A j \in I : i <= j

\* The encoded state built on pipe n of the list (0: the fallback values).
EncodedOn(n) ==
  IF n # 0
  THEN <<bird.y, bird.velocity, pipes[n].x - bird.x, pipes[n].top_height,
         pipes[n].top_height + pipes[n].gap>>
  ELSE <<bird.y, bird.velocity, U(WIDTH), HEIGHT \div 2, HEIGHT>>

\* C7 (as claimed), in a running game: the encoded state is built on the
\* first pipe in spawn order with x + width >= bird x, the fallback when
\* there is none.
C7_NextPipeAtOrAhead ==
  (Constructed /\ ~game_over) => ret.state =
    EncodedOn(FirstIndex({i \in 1..Len(pipes) :
                            pipes[i].x + U(pipes[i].width) >= bird.x}))

\* C7 (amended): the encoded state is built on the first pipe in spawn
\* order with x + width > bird x (a right edge exactly at the bird's x does
\* not count), the fallback when there is none.
C7_NextPipeStrictlyAhead ==
  Constructed => ret.state =
    EncodedOn(FirstIndex({i \in 1..Len(pipes) :
                            pipes[i].x + U(pipes[i].width) > bird.x}))

\* A running game in which a pipe's right edge is exactly at the bird's x.
C7_Witness ==
  /\ Constructed /\ ~game_over
  /\ \E i \in 1..Len(pipes) : pipes[i].x + U(pipes[i].width) = bird.x

\* ------------------------------------------------------------------- C8
\* C8: with the default configuration and only NO_OP since reset(), one of
\* the first 199 steps returned done = true, and the first step that does
\* so leaves y > HEIGHT while no pipe is hit.
C8_NoOpFallsOut ==
  (config = DefaultConfig /\ jumps = 0) =>
    /\ frames_elapsed >= 199 => game_over
    /\ (ret.op = "step" /\ ret.done /\ ~called_over) =>
         /\ bird.y > U(HEIGHT)
         /\ \A i \in 1..Len(pipes) : ~collides_with(pipes[i], bird)

C8_Witness ==
  /\ config = DefaultConfig /\ jumps = 0
  /\ frames_elapsed = 199 /\ game_over /\ ret.done

\* ------------------------------------------------------------------- C9
\* C9: in a run of NO_OP actions from reset(), every step up to and
\* including the first that returns done = true leaves y strictly greater
\* than it found it.
C9_NoOpYIncreases ==
  [][(StepTaken /\ jumps' = 0 /\ ~game_over) => bird'.y > bird.y]_vars

\* The first terminal step of a NO_OP run.
C9_Witness ==
  /\ ret.op = "step" /\ jumps = 0 /\ ~called_over /\ ret.done
  /\ bird.y > U(HEIGHT \div 2)

\* ------------------------------------------------------------------ C10
\* C10: with pipe_distance 300, width 70 and constant speed 3
\* (speed_increase_rate 0) the list never holds more than 3 pipes.
C10_AtMostThreePipes ==
  (config.pipe_distance = 300 /\ config.speed_increase_rate = 0) =>
    /\ \A i \in 1..Len(pipes) :
         pipes[i].width = 70 /\ pipes[i].speed = U(3)
    /\ Len(pipes) <= 3

\* The third pipe was created and the first one removed.
C10_Witness ==
  /\ config.pipe_distance = 300 /\ config.speed_increase_rate = 0
  /\ spawned = 3 /\ Len(pipes) = 2

\* ------------------------------------------------------------------ C11
\* C11: with a pipe_gap that does not fit the screen (pipe_gap > HEIGHT -
\* 200) the constructor raises: there is no engine, no step() was ever
\* made and no pipe exists; and every pipe that exists has its top_height
\* in [100, HEIGHT - gap - 100].
C11_BadGapFailsAtConstruction ==
  /\ config.pipe_gap > HEIGHT - 200 =>
       ~Constructed /\ frames_elapsed = 0 /\ spawned = 0 /\ pipes = <<>>
  /\ \A i \in 1..Len(pipes) :
       /\ 100 <= pipes[i].top_height
       /\ pipes[i].top_height <= HEIGHT - pipes[i].gap - 100

\* The constructor was called with pipe_gap = 450 and raised.
C11_Witness == config.pipe_gap > HEIGHT - 200 /\ ret.op = "raise"

\* ------------------------------------------------------------------ C12
\* C12: a step(JUMP) ends with velocity = jump_strength + gravity (-9.5)
\* and y = previous y - 9.5, whatever the velocity before the step was.
C12_JumpOverridesVelocity ==
  [][(StepTaken /\ jumps' = jumps + 1) =>
       /\ bird'.velocity = -19
       /\ bird'.y = bird.y - 19
       /\ bird'.x = bird.x]_vars

\* A JUMP made when the bird was falling at 2.0 per step.
C12_Witness ==
  /\ ret.op = "step" /\ jumps = 1 /\ frames_elapsed = 5
  /\ bird.velocity = -19

\* ------------------------------------------------------------------ C13
\* C13: every pipe of the list has the configured pipe_gap and a
\* top_height in [100, HEIGHT - gap - 100], and a step changes neither the
\* top_height nor the gap (nor the width) of a pipe.
C13_PipeGeometryFixed ==
  /\ [](\A i \in 1..Len(pipes) :
          /\ pipes[i].gap = config.pipe_gap
          /\ 100 <= pipes[i].top_height
          /\ pipes[i].top_height <= HEIGHT - config.pipe_gap - 100)
  /\ [][StepTaken =>
          \A i \in 1..Len(pipes) : \A j \in 1..Len(pipes') :
            pipes'[j].id = pipes[i].id =>
              /\ pipes'[j].top_height = pipes[i].top_height
              /\ pipes'[j].gap = pipes[i].gap
              /\ pipes'[j].width = pipes[i].width]_vars

\* A pipe created by step() with a gap other than the default moved, was
\* passed and is still in the list.
C13_Witness ==
  /\ config.pipe_gap # 200
  /\ \E i \in 1..Len(pipes) :
       pipes[i].id >= 2 /\ pipes[i].passed /\ pipes[i].speed # U(PipeSpeed)

\* ------------------------------------------------------------------ C14
\* C14: a step() returns (+1, false) or (-1000, true); it sets game_over
\* exactly when it returns done = true (otherwise it leaves the flag as it
\* found it); and game_over is false as long as no step since reset()
\* returned done = true.
C14_RewardDoneGameOver ==
  /\ ret.op = "step" =>
       /\ \/ ret.reward = 1 /\ ~ret.done
          \/ ret.reward = -1000 /\ ret.done
       /\ ret.done => game_over
       /\ ~ret.done => game_over = called_over
  /\ (Constructed /\ ~done_seen) => ~game_over

\* The first terminal step of an episode: done = true, game_over set.
C14_Witness ==
  /\ ret.op = "step" /\ ret.done /\ ret.reward = -1000
  /\ ~called_over /\ game_over /\ done_seen

\* ------------------------------------------------------------ C15 - C16
\* The step being taken returns on a pipe collision (lines 165-167): it
\* returns done and a pipe of the list overlaps the bird.  A step that ran
\* through the loop moved every pipe clear of the bird, and a new pipe at
\* x = WIDTH is out of the bird's reach.
CollisionReturn ==
  /\ StepTaken
  /\ ret'.done
  /\ \E i \in 1..Len(pipes') : collides_with(pipes'[i], bird')

\* The pipe of the list after the step whose collision check ended it.
Collider == FirstIndex({i \in 1..Len(pipes') : collides_with(pipes'[i], bird')})

\* C15 (as claimed), for the steps of a running game: with pipe_distance
\* above the pipe width a step that returns on a pipe collision leaves
\* score and every passed flag as they were.
C15_CollisionStepScoresNothing ==
  [][(CollisionReturn /\ ~game_over /\ config.pipe_distance > PipeWidth) =>
       /\ score' = score
       /\ Len(pipes') = Len(pipes)
       /\ \A i \in 1..Len(pipes) : pipes'[i].passed = pipes[i].passed]_vars

\* ------------------------------------------------------------------ C16
\* C16: in a step that returns on a pipe collision the pipes up to the
\* first colliding one moved at the new speed, the later ones keep x and
\* speed, the list has the same pipes in the same order, and the bird update
\* and the frame increment are done.
C16_CollisionEndsTheLoop ==
  [][CollisionReturn =>
       /\ Len(pipes') = Len(pipes)
       /\ \A i \in 1..Len(pipes) :
            /\ pipes'[i].id = pipes[i].id
            /\ i <= Collider =>
                 /\ pipes'[i].x = pipes[i].x - current_speed'
                 /\ pipes'[i].speed = current_speed'
            /\ i > Collider =>
                 /\ pipes'[i].x = pipes[i].x
                 /\ pipes'[i].speed = pipes[i].speed
       /\ spawned' = spawned
       /\ frames_elapsed' = frames_elapsed + 1
       /\ bird'.velocity =
            (IF jumps' = jumps + 1 THEN jump_strength ELSE bird.velocity)
              + gravity
       /\ bird'.y = bird.y + bird'.velocity
       /\ game_over']_vars

\* A running game ended on the first pipe of the list while a later pipe,
\* created at an earlier speed, was left where it was.
C16_Witness ==
  /\ ret.op = "step" /\ ret.done /\ ~called_over
  /\ Len(pipes) >= 2
  /\ collides_with(pipes[1], bird)
  /\ pipes[1].speed = current_speed
  /\ pipes[2].speed # current_speed

\* ------------------------------------------------------------------ C17
\* C17: with pipe_distance > 0 and speed_increase_rate >= 0 the pipes are
\* in strictly increasing x, consecutive pipes are more than pipe_distance
\* apart, and a step appends at most one pipe, at x = WIDTH, at the end.
C17_PipesOrderedAndSpaced ==
  /\ []((config.pipe_distance > 0 /\ config.speed_increase_rate >= 0) =>
          \A i \in 1..(Len(pipes) - 1) :
            /\ pipes[i].x < pipes[i + 1].x
            /\ pipes[i + 1].x - pipes[i].x > U(config.pipe_distance))
  /\ [][StepTaken =>
          LET new == {j \in 1..Len(pipes') :
                        \A i \in 1..Len(pipes) : pipes[i].id # pipes'[j].id}
          IN  /\ Cardinality(new) <= 1
              /\ \A j \in new : j = Len(pipes') /\ pipes'[j].x = U(WIDTH)]_vars

\* A step has just appended a pipe behind two others.
C17_Witness ==
  /\ ret.op = "step" /\ Len(pipes) >= 3
  /\ pipes[Len(pipes)].x = U(WIDTH)
  /\ pipes[1].x < pipes[2].x

\* ------------------------------------------------------------------ C18
\* C18: score is the number of pipes created since the last reset() that
\* were marked passed, in the list or removed; a step never lowers it; a
\* step removes a pipe only when its x + width is below 0 and the pipe is
\* marked passed; the pipes that stay keep their order.
C18_ScoreCountsPassedPipes ==
  /\ [](Constructed =>
          /\ score = Cardinality({i \in 1..Len(pipes) : pipes[i].passed})
                       + (spawned - Len(pipes))
          /\ score = Len(scored))
  /\ [][StepTaken =>
          /\ score' >= score
          /\ \A i \in 1..Len(pipes) :
               PipeWithId(pipes', pipes[i].id) = {} =>
                 /\ pipes[i].x - current_speed' + U(pipes[i].width) < 0
                 /\ pipes[i].passed \/ Count(scored', pipes[i].id) = 1
          /\ \A i1, i2 \in 1..Len(pipes) :
               \A j1 \in PipeWithId(pipes', pipes[i1].id) :
                 \A j2 \in PipeWithId(pipes', pipes[i2].id) :
                   i1 < i2 => j1 < j2]_vars

\* One passed pipe was removed and another passed pipe is in the list.
C18_Witness ==
  /\ spawned - Len(pipes) >= 1
  /\ \E i \in 1..Len(pipes) : pipes[i].passed
  /\ score >= 2

\* ------------------------------------------------------------------ C19
\* C19: an engine always has a pipe in its list; with the default
\* configuration some pipe has x + width > bird x, and the encoded state
\* is never the fallback (WIDTH, HEIGHT/2, HEIGHT).
C19_AlwaysAPipe ==
  Constructed =>
    /\ Len(pipes) >= 1
    /\ config = DefaultConfig =>
         /\ \E i \in 1..Len(pipes) : pipes[i].x + U(pipes[i].width) > bird.x
         /\ <<ret.state[3], ret.state[4], ret.state[5]>> # <<U(400), 300, 600>>

\* Default configuration: the first pipe is behind the bird and the encoded
\* state is built on the second.
C19_Witness ==
  /\ config = DefaultConfig /\ Len(pipes) = 2
  /\ pipes[1].passed
  /\ ret.op = "step"
  /\ ret.state[3] = pipes[2].x - bird.x

\* ------------------------------------------------------------------ C20
\* The transition is a reset() call that shows in the engine.
ResetCalled == ret'.op = "reset" /\ ret' # ret

\* C20: in play_human step() is called only while game_over is false and
\* the loop is running; reset() is called only for a SPACE taken while
\* game_over is true, and that event leaves the action alone; a QUIT ends
\* the running for good; and while game_over is true nothing but that
\* reset() changes the engine.
C20_HumanLoopGuards ==
  [][/\ StepTaken => ~game_over /\ running
     /\ ResetCalled => game_over /\ event' = "SPACE" /\ act' = act
     /\ (polled' = polled + 1 /\ event' = "QUIT") => ~running'
     /\ ~running => ~running'
     /\ (game_over /\ ~ResetCalled) =>
          UNCHANGED <<bird, pipes, score, game_over, current_speed,
                      frames_elapsed>>]_vars

\* A SPACE taken while the game was over has just reset it, no jump set.
C20_Witness ==
  /\ pc = "events" /\ event = "SPACE"
  /\ ret.op = "reset" /\ called_over /\ ~game_over
  /\ act = NO_OP /\ running

====
